---- MODULE Spec2Model ----
(***************************************************************************)
(* Model of the pyramidal OME-TIFF writer of bigwarp-zarr-to-ometiff.ipynb *)
(* (write_pyramidal_ome_tiff, _tiles_generator, _downsample_image,         *)
(* _make_ome_metadata).  One behaviour is one call of                      *)
(* write_pyramidal_ome_tiff; the arguments are drawn in Init.  The output  *)
(* container (tifffile.TiffWriter) and the lazy stack (dask) are external: *)
(* the container records the entries declared and the tiles appended in    *)
(* the order it receives them, and every call into either library may      *)
(* raise.                                                                   *)
(***************************************************************************)
EXTENDS Integers, Sequences, FiniteSets, TLC

VARIABLES
    args,          \* the arguments of write_pyramidal_ome_tiff
    pc,            \* position in write_pyramidal_ome_tiff / _tiles_generator
    ome_metadata,  \* local ome_metadata (line 98)
    dirs_created,  \* the parent directories of pyramid_filename exist
    file_state,    \* "absent" | "open" | "closed": the file at pyramid_filename
    entries,       \* image entries declared by tif.write, in order
    tiles,         \* tiles appended to the container, in order
    level,         \* level being written
    c,             \* _tiles_generator: channel index
    image,         \* _tiles_generator: local image (shape of the plane held)
    y,             \* _tiles_generator: row of the next tile
    x,             \* _tiles_generator: column of the next tile
    error,         \* the exception that left write_pyramidal_ome_tiff
    computed,      \* _tiles_generator: value of img_stack[c].compute() not yet bound
    materialized,  \* the compute() calls made, with the tiles yielded before each
    pending,       \* tiles the generator has yielded that tif.write has not stored yet
    call,          \* a direct call of _downsample_image or of the tile loops
    ret,           \* its result
    script         \* the run of the point-warping script

\* The variables of one call of write_pyramidal_ome_tiff.
wvars == <<args, pc, ome_metadata, dirs_created, file_state, entries, tiles,
           level, c, image, y, x, error, computed, materialized, pending>>

\* The variables no statement of write_pyramidal_ome_tiff touches.
others == <<call, ret, script>>

vars == <<args, pc, ome_metadata, dirs_created, file_state, entries, tiles,
          level, c, image, y, x, error, computed, materialized, pending,
          call, ret, script>>

----------------------------------------------------------------------------
(* Bounds of the model *)

MaxChannels == 2
MaxDim == 3
MaxLevels == 3
MaxTile == 2
MaxFactor == 3
MaxRows == 2
MaxAhead == 2

----------------------------------------------------------------------------
(* Python values *)

NoneVal == [some |-> FALSE]
Some(v) == [some |-> TRUE, val |-> v]

\* Python truthiness of an Optional[list] / Optional[tuple]: None and the
\* empty sequence are falsy.
Truthy(opt) == opt.some /\ Len(opt.val) > 0

\* math.ceil(a / b) for a >= 0, b >= 1 (exact in double precision for the
\* sizes an image can have).
CeilOfQuotient(a, b) == IF a % b = 0 THEN a \div b ELSE (a \div b) + 1

\* 2**level
RECURSIVE Pow2(_)
Pow2(n) == IF n <= 0 THEN 1 ELSE 2 * Pow2(n - 1)

\* len(range(0, stop, step)) for step # 0
RangeLen(stop, step) ==
    IF step > 0
    THEN (IF stop > 0 THEN CeilOfQuotient(stop, step) ELSE 0)
    ELSE (IF stop < 0 THEN CeilOfQuotient(-stop, -step) ELSE 0)

Min(a, b) == IF a < b THEN a ELSE b

----------------------------------------------------------------------------
(* _creator and _make_ome_metadata *)

\* _creator()
Creator == "zarr-ometiff"

\* str() of a float given in hundredths: 25 -> "0.25", 50 -> "0.5",
\* 100 -> "1.0".  The shortest decimal that reads back as the same float.
FloatStr(n) ==
    LET whole == n \div 100
        frac  == n % 100
        digits == IF frac % 10 = 0
                  THEN ToString(frac \div 10)
                  ELSE ToString(frac \div 10) \o ToString(frac % 10)
    IN  ToString(whole) \o "." \o digits

\* Mutant of MakeOmeMetadata: the pair is unpacked as (x, y).
MakeOmeMetadataXFirst(num_channels, channel_names, pixel_size_um) ==
    LET m0 == ("Creator" :> Creator)
        m1 == IF Truthy(pixel_size_um)
              THEN LET pixel_size_x_um == pixel_size_um.val[1]
                       pixel_size_y_um == pixel_size_um.val[2]
                   IN  m0 @@ ("PhysicalSizeX" :> FloatStr(pixel_size_x_um))
                          @@ ("PhysicalSizeXUnit" :> "µm")
                          @@ ("PhysicalSizeY" :> FloatStr(pixel_size_y_um))
                          @@ ("PhysicalSizeYUnit" :> "µm")
              ELSE m0
    IN  IF Truthy(channel_names)
        THEN IF Len(channel_names.val) = num_channels
             THEN [ok |-> TRUE,
                   value |-> m1 @@ ("Channel" :> [Name |-> channel_names.val])]
             ELSE [ok |-> FALSE, value |-> m1]
        ELSE [ok |-> TRUE, value |-> m1]

\* The result of _make_ome_metadata: the dictionary, or the AssertionError
\* of line 198.
MakeOmeMetadata(num_channels, channel_names, pixel_size_um) ==
    LET m0 == ("Creator" :> Creator)
        m1 == IF Truthy(pixel_size_um)
              THEN LET pixel_size_y_um == pixel_size_um.val[1]
                       pixel_size_x_um == pixel_size_um.val[2]
                   IN  m0 @@ ("PhysicalSizeX" :> FloatStr(pixel_size_x_um))
                          @@ ("PhysicalSizeXUnit" :> "µm")
                          @@ ("PhysicalSizeY" :> FloatStr(pixel_size_y_um))
                          @@ ("PhysicalSizeYUnit" :> "µm")
              ELSE m0
    IN  IF Truthy(channel_names)
        THEN IF Len(channel_names.val) = num_channels
             THEN [ok |-> TRUE,
                   value |-> m1 @@ ("Channel" :> [Name |-> channel_names.val])]
             ELSE [ok |-> FALSE, value |-> m1]
        ELSE [ok |-> TRUE, value |-> m1]

----------------------------------------------------------------------------
(* Arguments *)

\* The pairs (channel_names, pixel_size_um) the calls are made with: every
\* kind of name list (none, empty, one, two and three names) and both kinds
\* of pixel size.  The two arguments only meet in _make_ome_metadata, which
\* uses each on its own.
MetadataChoices ==
    { <<NoneVal, Some(<<25, 50>>)>>,
      <<Some(<<>>), NoneVal>>,
      <<Some(<<"DAPI">>), NoneVal>>,
      <<Some(<<"FITC", "DAPI">>), Some(<<25, 50>>)>>,
      <<Some(<<"DAPI", "FITC", "Cy5">>), NoneVal>> }

\* The two documented values and a misspelled one.
MethodChoices == { "box", "nearest neighbor", "Box" }

\* The metadata arguments with the method: the documented methods with
\* every pair, the misspelled one with the pair that names no channel.  The
\* method is only read by _downsample_image, the pair only by
\* _make_ome_metadata.
OptionChoices ==
    (MetadataChoices \X (MethodChoices \ {"Box"}))
        \cup ({ m \in MetadataChoices : ~m[1].some } \X {"Box"})

Args ==
    { [ num_channels      |-> n,
        image_height      |-> h,
        image_width       |-> w,
        channel_names     |-> o[1][1],
        pixel_size_um     |-> o[1][2],
        compression       |-> "zlib",
        tile_size         |-> t,
        max_levels        |-> l,
        downsample_method |-> o[2] ] :
        n \in 1..MaxChannels, h \in 1..MaxDim, w \in 1..MaxDim,
        o \in OptionChoices, t \in (-1)..MaxTile, l \in 0..MaxLevels }

NoError == [raised |-> FALSE]
NoImage == [held |-> FALSE]
NoCall == [fn |-> "none"]
NoRet == [done |-> FALSE]
NoScript == [pc |-> "none"]

\* The pixels of channel ch of the stack, img_stack[ch].compute(): a plane
\* of image_height x image_width whose pixels all differ, within the channel
\* and from every other channel.
StackPlane(a, ch) ==
    [ r \in 1..a.image_height |->
        [ col \in 1..a.image_width |->
            7 * ((ch * a.image_height + (r - 1)) * a.image_width + col) ] ]

\* An exception as the caller receives it: the object the failing call raised.
\* No statement of the notebook catches, wraps or annotates an exception.
Exception(type, origin) == [raised |-> TRUE, type |-> type, origin |-> origin]

Init ==
    /\ args \in Args
    /\ pc = "metadata"
    /\ ome_metadata = NoneVal
    /\ dirs_created = FALSE
    /\ file_state = "absent"
    /\ entries = <<>>
    /\ tiles = <<>>
    /\ level = 0
    /\ c = 0
    /\ image = NoImage
    /\ y = 0
    /\ x = 0
    /\ error = NoError
    /\ computed = NoImage
    /\ materialized = <<>>
    /\ pending = <<>>
    /\ call = NoCall
    /\ ret = NoRet
    /\ script = NoScript

----------------------------------------------------------------------------
(* Shapes *)

\* Mutant of DeclaredShape: floor division (//) in place of math.ceil.
DeclaredShapeFloor(num_channels, image_height, image_width, lvl) ==
    <<num_channels, image_height \div Pow2(lvl), image_width \div Pow2(lvl), 1>>

\* Line 120 and lines 127, 131: the shape declared for a level's entry.
DeclaredShape(num_channels, image_height, image_width, lvl) ==
    IF lvl = 0
    THEN <<num_channels, image_height, image_width, 1>>
    ELSE <<num_channels,
           CeilOfQuotient(image_height, Pow2(lvl)),
           CeilOfQuotient(image_width, Pow2(lvl)),
           1>>

\* Mutant of Subifds: subifds=num_pyramid_levels.
SubifdsOffByOne(num_pyramid_levels) == num_pyramid_levels

\* Line 122: the sub-resolution entries the primary entry declares.
Subifds(num_pyramid_levels) == num_pyramid_levels - 1

\* Line 126: range(1, num_pyramid_levels) has a level after lvl.
HasNextLevel(lvl, num_pyramid_levels) == lvl + 1 < num_pyramid_levels

\* Mutant of BlockReduceLen: the plane is cropped to a multiple of the factor.
BlockReduceLenCropped(n, factor) == n \div factor

\* skimage downscale_local_mean: the plane is padded up to a multiple of the
\* factor and reduced block by block.
BlockReduceLen(n, factor) ==
    LET after_width == IF n % factor # 0 THEN factor - (n % factor) ELSE 0
    IN  (n + after_width) \div factor

\* Mutant of StrideLen: a last stride that is not full is dropped.
StrideLenFloor(n, factor) == n \div factor

\* img[::factor]
StrideLen(n, factor) == RangeLen(n, factor)

\* _downsample_image, on the shape of the plane.
DownsampleImageShape(h, w, downsample_factor, downsample_method) ==
    IF downsample_factor # 1
    THEN IF downsample_method = "box"
         THEN <<BlockReduceLen(h, downsample_factor),
                BlockReduceLen(w, downsample_factor)>>
         ELSE <<StrideLen(h, downsample_factor),
                StrideLen(w, downsample_factor)>>
    ELSE <<h, w>>

----------------------------------------------------------------------------
(* Pixel planes: a plane is a sequence of rows, each a sequence of pixels *)

Height(img) == Len(img)
Width(img) == IF Len(img) = 0 THEN 0 ELSE Len(img[1])

\* The sum of the first n elements of s.
RECURSIVE SumFirst(_, _)
SumFirst(s, n) == IF n = 0 THEN 0 ELSE s[n] + SumFirst(s, n - 1)

SumSeq(s) == SumFirst(s, Len(s))

\* skimage block_reduce pads the plane with cval = 0 (the default of
\* downscale_local_mean) up to a multiple of the block size: the pixel at
\* (r, col) of the padded plane.
PaddedAt(img, r, col) ==
    IF r <= Height(img) /\ col <= Width(img) THEN img[r][col] ELSE 0

\* The factor x factor block (i, j) of the padded plane, row by row.
Block(img, i, j, factor) ==
    [ k \in 1..(factor * factor) |->
        PaddedAt(img, (i - 1) * factor + ((k - 1) \div factor) + 1,
                      (j - 1) * factor + ((k - 1) % factor) + 1) ]

\* downscale_local_mean(img, (factor, factor)): np.mean over every block of
\* the padded plane, as the fraction <<sum, number of elements>>.
DownscaleLocalMean(img, factor) ==
    [ i \in 1..BlockReduceLen(Height(img), factor) |->
        [ j \in 1..BlockReduceLen(Width(img), factor) |->
            << SumSeq(Block(img, i, j, factor)), factor * factor >> ] ]

\* .astype(img.dtype) of a plane of non-negative means: truncation.
AsType(means) ==
    [ i \in 1..Len(means) |->
        [ j \in 1..Len(means[i]) |-> means[i][j][1] \div means[i][j][2] ] ]

\* Mutant of StrideIndices: the slice starts at the second element.
StrideIndicesFromOne(n, step) ==
    IF step > 0
    THEN [ k \in 1..RangeLen(n - 1, step) |-> (k - 1) * step + 2 ]
    ELSE [ k \in 1..CeilOfQuotient(n, -step) |-> n - (k - 1) * (-step) ]

\* The (1-based) positions [::step] selects along an axis of length n,
\* step # 0: from the first element forward for a positive step, from the
\* last element backward for a negative one.
StrideIndices(n, step) ==
    IF step > 0
    THEN [ k \in 1..StrideLen(n, step) |-> (k - 1) * step + 1 ]
    ELSE [ k \in 1..CeilOfQuotient(n, -step) |-> n - (k - 1) * (-step) ]

\* img[::factor, ::factor]
Decimate(img, factor) ==
    LET rows == StrideIndices(Height(img), factor)
        cols == StrideIndices(Width(img), factor)
    IN  [ i \in 1..Len(rows) |-> [ j \in 1..Len(cols) |-> img[rows[i]][cols[j]] ] ]

Returned(v) == [ok |-> TRUE, value |-> v]
Raised(type) == [ok |-> FALSE, type |-> type]

\* _downsample_image: the plane returned or the exception raised.  With
\* 'box' a factor below 1 is rejected by skimage; with any other method a
\* factor of 0 is rejected by the slice (step cannot be zero) and a negative
\* one is a valid step.
\* Mutant of DownsampleImage: the method is matched without regard to case.
DownsampleImageAnyCase(img, downsample_factor, downsample_method) ==
    IF downsample_factor # 1
    THEN IF downsample_method \in {"box", "Box"}
         THEN IF downsample_factor < 1
              THEN Raised("ValueError")
              ELSE Returned(AsType(DownscaleLocalMean(img, downsample_factor)))
         ELSE IF downsample_factor = 0
              THEN Raised("ValueError")
              ELSE Returned(Decimate(img, downsample_factor))
    ELSE Returned(img)

\* _downsample_image
DownsampleImage(img, downsample_factor, downsample_method) ==
    IF downsample_factor # 1
    THEN IF downsample_method = "box"
         THEN IF downsample_factor < 1
              THEN Raised("ValueError")
              ELSE Returned(AsType(DownscaleLocalMean(img, downsample_factor)))
         ELSE IF downsample_factor = 0
              THEN Raised("ValueError")
              ELSE Returned(Decimate(img, downsample_factor))
    ELSE Returned(img)

\* image[y:y+tile_height, x:x+tile_width].copy() for 0-based ty, tx inside
\* the plane and positive tile sizes: the slice is clipped at the boundary.
Crop(img, ty, tx, tile_height, tile_width) ==
    [ i \in 1..(Min(ty + tile_height, Height(img)) - ty) |->
        [ j \in 1..(Min(tx + tile_width, Width(img)) - tx) |->
            img[ty + i][tx + j] ] ]

\* Mutant of NextOrigin: the two loops nested the other way round.
NextOriginColumnMajor(ty, tx, image_height, image_width, tile_height, tile_width) ==
    IF ty + tile_height < image_height
    THEN <<ty + tile_height, tx>>
    ELSE IF tx + tile_width < image_width
         THEN <<0, tx + tile_width>>
         ELSE <<>>

\* Lines 161-162: the position after tile (ty, tx) in the two nested loops,
\* for positive tile sizes; <<>> when both ranges are exhausted.
NextOrigin(ty, tx, image_height, image_width, tile_height, tile_width) ==
    IF tx + tile_width < image_width
    THEN <<ty, tx + tile_width>>
    ELSE IF ty + tile_height < image_height
         THEN <<ty + tile_height, 0>>
         ELSE <<>>

\* Line 163: image[y:y+tile_height, x:x+tile_width], by origin and shape.
TileAt(lvl, ch, ty, tx, image_height, image_width, tile_height, tile_width) ==
    [ level |-> lvl, channel |-> ch, y |-> ty, x |-> tx,
      shape |-> << Min(ty + tile_height, image_height) - ty,
                   Min(tx + tile_width, image_width) - tx >> ]

----------------------------------------------------------------------------
(* Exceptions *)

\* An exception raised before the with statement is entered (lines 98-114).
RaiseOutsideWith(type, origin) ==
    /\ pc' = "failed"
    /\ error' = Exception(type, origin)
    /\ UNCHANGED file_state

\* Mutant of RaiseInsideWith: the writer is opened without a with statement.
RaiseWithoutClose(type, origin) ==
    /\ pc' = "failed"
    /\ error' = Exception(type, origin)
    /\ UNCHANGED file_state

\* Line 114, __exit__: TiffWriter.close() flushes and closes the file; when
\* it raises, its OSError is what leaves the with statement.
CloseError == Exception("OSError", "TiffWriter.close")

\* An exception raised inside the with block (lines 114-134): TiffWriter's
\* __exit__ closes the file and the exception propagates to the caller,
\* unless close() raises too and its exception takes the place.
RaiseInsideWith(type, origin) ==
    /\ pc' = "failed"
    /\ error' \in {Exception(type, origin), CloseError}
    /\ file_state' = "closed"

\* Mutant of GeneratorRaise: the channel loop catches the exception and
\* continues with the next channel.
SwallowAndSkipChannel(type, origin) ==
    /\ c' = c + 1
    /\ pc' = "channel"
    /\ UNCHANGED <<error, file_state>>

\* An exception raised in _tiles_generator (lines 145-163) while tif.write
\* iterates it: the generator has no handler, so it leaves tif.write too.
GeneratorRaise(type, origin) ==
    /\ RaiseInsideWith(type, origin)
    /\ UNCHANGED c

----------------------------------------------------------------------------
(* write_pyramidal_ome_tiff *)

\* Line 98.
BuildMetadata ==
    /\ pc = "metadata"
    /\ LET r == MakeOmeMetadata(args.num_channels, args.channel_names,
                                args.pixel_size_um)
       IN  IF r.ok
           THEN /\ ome_metadata' = Some(r.value)
                /\ pc' = "mkdir"
                /\ UNCHANGED <<error, file_state>>
           ELSE /\ RaiseOutsideWith("AssertionError", "_make_ome_metadata")
                /\ UNCHANGED ome_metadata
    /\ UNCHANGED <<others, computed, materialized, pending, args,
                   dirs_created, entries, tiles, level, c, image, y, x>>

\* Line 111.
Mkdir ==
    /\ pc = "mkdir"
    /\ \/ /\ dirs_created' = TRUE
          /\ pc' = "open"
          /\ UNCHANGED <<error, file_state>>
       \/ /\ RaiseOutsideWith("OSError", "mkdir")
          /\ UNCHANGED dirs_created
    /\ UNCHANGED <<others, computed, materialized, pending, args,
                   ome_metadata, entries, tiles, level, c, image, y, x>>

\* Line 114: the file is created and the with block entered.
OpenContainer ==
    /\ pc = "open"
    /\ \/ /\ file_state' = "open"
          /\ pc' = "write_level"
          /\ level' = 0
          /\ UNCHANGED error
       \/ /\ RaiseOutsideWith("OSError", "TiffWriter")
          /\ UNCHANGED level
    /\ UNCHANGED <<others, computed, materialized, pending, args,
                   ome_metadata, dirs_created, entries, tiles, c, image, y, x>>

\* Lines 100-106: the options every tif.write call is given.
Options(a, metadata) ==
    [ tile |-> <<a.tile_size, a.tile_size>>,
      photometric |-> "minisblack",
      compression |-> a.compression,
      metadata |-> metadata,
      software |-> Creator ]

\* Lines 118-123: tif.write for level 0; the generator is created.
WriteFullResolution ==
    /\ pc = "write_level"
    /\ level = 0
    /\ \/ /\ entries' = Append(entries,
                [ level |-> 0,
                  shape |-> DeclaredShape(args.num_channels, args.image_height,
                                          args.image_width, 0),
                  subifds |-> Subifds(args.max_levels),
                  subfiletype |-> 0,
                  options |-> Options(args, ome_metadata.val) ])
          /\ c' = 0
          /\ pc' = "channel"
          /\ UNCHANGED <<error, file_state>>
       \/ /\ \E type \in {"ValueError", "OSError"} : RaiseInsideWith(type, "tif.write")
          /\ UNCHANGED <<entries, c>>
    /\ UNCHANGED <<others, computed, materialized, pending, args,
                   ome_metadata, dirs_created, tiles, level, image, y, x>>

\* Lines 127-134: tif.write for a level >= 1.
WriteDownsampledLevel ==
    /\ pc = "write_level"
    /\ level >= 1
    /\ \/ /\ entries' = Append(entries,
                [ level |-> level,
                  shape |-> DeclaredShape(args.num_channels, args.image_height,
                                          args.image_width, level),
                  subifds |-> 0,
                  subfiletype |-> 1,
                  options |-> Options(args, ome_metadata.val) ])
          /\ c' = 0
          /\ pc' = "channel"
          /\ UNCHANGED <<error, file_state>>
       \/ /\ \E type \in {"ValueError", "OSError"} : RaiseInsideWith(type, "tif.write")
          /\ UNCHANGED <<entries, c>>
    /\ UNCHANGED <<others, computed, materialized, pending, args,
                   ome_metadata, dirs_created, tiles, level, image, y, x>>

----------------------------------------------------------------------------
(* _tiles_generator, driven by tif.write *)

\* Mutant of Materialize: the planes computed for level 0 are kept and
\* used again for the levels after it.
MaterializeOncePerChannel ==
    /\ pc = "channel"
    /\ c < args.num_channels
    /\ \/ /\ computed' = [held |-> TRUE, channel |-> c, full |-> TRUE,
                           shape |-> <<args.image_height, args.image_width>>,
                           data |-> StackPlane(args, c)]
          /\ materialized' =
                 IF level = 0
                 THEN Append(materialized,
                        [level |-> level, channel |-> c,
                 tiles_before |-> Len(tiles) + Len(pending)])
                 ELSE materialized
          /\ pc' = "bind"
          /\ UNCHANGED <<c, error, file_state>>
       \/ /\ GeneratorRaise("OSError", "compute")
          /\ UNCHANGED <<computed, materialized>>
    /\ UNCHANGED <<others, pending, args, ome_metadata, dirs_created, entries, tiles, level,
                   image, y, x>>

\* Lines 145, 154, right-hand side: the next channel's plane is computed
\* from the stack, while image still refers to what the previous iteration
\* left in it.
Materialize ==
    /\ pc = "channel"
    /\ c < args.num_channels
    /\ \/ /\ GeneratorRaise("OSError", "compute")
          /\ UNCHANGED <<computed, materialized>>
       \/ /\ computed' = [held |-> TRUE, channel |-> c, full |-> TRUE,
                           shape |-> <<args.image_height, args.image_width>>,
                           data |-> StackPlane(args, c)]
          /\ materialized' = Append(materialized,
                [level |-> level, channel |-> c,
                 tiles_before |-> Len(tiles) + Len(pending)])
          /\ pc' = "bind"
          /\ UNCHANGED <<c, error, file_state>>
    /\ UNCHANGED <<others, pending, args, ome_metadata, dirs_created, entries, tiles, level,
                   image, y, x>>

\* Line 154, assignment: image is bound to the plane computed; whatever it
\* referred to before loses that reference.
BindImage ==
    /\ pc = "bind"
    /\ image' = computed
    /\ computed' = NoImage
    /\ pc' = "downsample"
    /\ UNCHANGED <<others, materialized, pending, args, ome_metadata, dirs_created,
                   file_state, entries, tiles, level, c, y, x, error>>

\* Whether the array _downsample_image returns keeps the full-resolution
\* plane it was given alive: with factor 1 it is that plane, with slicing it
\* is a view of it; downscale_local_mean(...).astype(...) is a new array.
KeepsFullPlane(downsample_factor, downsample_method) ==
    downsample_factor = 1 \/ downsample_method # "box"

\* Line 157.
Downsample ==
    /\ pc = "downsample"
    /\ \/ /\ GeneratorRaise("MemoryError", "_downsample_image")
          /\ UNCHANGED image
       \/ /\ DownsampleImage(image.data, Pow2(level), args.downsample_method).ok
          /\ image' = [image EXCEPT
                  !.shape = DownsampleImageShape(image.shape[1], image.shape[2],
                                                 Pow2(level), args.downsample_method),
                  !.data = DownsampleImage(image.data, Pow2(level),
                                           args.downsample_method).value,
                  !.full = KeepsFullPlane(Pow2(level), args.downsample_method)]
          /\ pc' = "tile_loop"
          /\ UNCHANGED <<c, error, file_state>>
    /\ UNCHANGED <<others, computed, materialized, pending, args,
                   ome_metadata, dirs_created, entries, tiles, level, y, x>>

\* Line 163: the tile the generator yields at (ty, tx): a copy of the slice
\* of the plane it holds.
TileYielded(ty, tx) ==
    TileAt(level, c, ty, tx, image.shape[1], image.shape[2],
           args.tile_size, args.tile_size)
        @@ [data |-> Crop(image.data, ty, tx, args.tile_size, args.tile_size)]

\* Line 145, after the tile loops of channel c were left: the next channel
\* is taken, the local image still bound to the plane of channel c; after
\* the last channel the generator returns and its locals are released.
LeaveChannel ==
    /\ c' = c + 1
    /\ pc' = "channel"
    /\ image' = IF c + 1 >= args.num_channels THEN NoImage ELSE image

\* Lines 160-163: the two range() loops are entered and the first tile is
\* yielded; the generator is suspended at line 163.  range() with step 0
\* raises ValueError; with a negative step it is empty.
EnterTileLoop ==
    /\ pc = "tile_loop"
    /\ IF args.tile_size = 0
       THEN /\ GeneratorRaise("ValueError", "range")
            /\ UNCHANGED <<y, x, pending, image>>
       ELSE IF RangeLen(image.shape[1], args.tile_size) = 0
               \/ RangeLen(image.shape[2], args.tile_size) = 0
            THEN /\ LeaveChannel
                 /\ UNCHANGED <<y, x, pending, error, file_state>>
            ELSE /\ y' = 0
                 /\ x' = 0
                 /\ pending' = Append(pending, TileYielded(0, 0))
                 /\ pc' = "yield"
                 /\ UNCHANGED <<c, image, error, file_state>>
    /\ UNCHANGED <<others, computed, materialized, args,
                   ome_metadata, dirs_created, entries, tiles, level>>

\* The generator is suspended at line 163, or has returned (line 145
\* exhausted): control is with tif.write.
GeneratorSuspended == pc = "yield"
GeneratorExhausted == pc = "channel" /\ c >= args.num_channels

\* The generator is suspended at the last tile of the last channel.
SuspendedAtLastTile ==
    /\ pc = "yield"
    /\ c = args.num_channels - 1
    /\ NextOrigin(y, x, image.shape[1], image.shape[2],
                  args.tile_size, args.tile_size) = <<>>

\* tif.write stores the oldest tile it received and has not stored yet, or
\* the container raises.
AppendTile ==
    /\ GeneratorSuspended \/ GeneratorExhausted
    /\ \/ /\ RaiseInsideWith("OSError", "append")
          /\ UNCHANGED <<tiles, pending>>
       \/ /\ pending # <<>>
          /\ tiles' = Append(tiles, Head(pending))
          /\ pending' = Tail(pending)
          /\ UNCHANGED <<pc, error, file_state>>
    /\ UNCHANGED <<others, computed, materialized, args, ome_metadata,
                   dirs_created, entries, level, c, image, y, x>>

\* tif.write asks for the next tile, holding fewer than MaxAhead tiles not
\* yet stored: the generator is resumed after line 163, the loops of lines
\* 161-162 advance and the next tile is yielded, or the loops are left for
\* the next channel (line 145).
ResumeGenerator ==
    /\ pc = "yield"
    /\ Len(pending) < MaxAhead
    /\ LET n == NextOrigin(y, x, image.shape[1], image.shape[2],
                           args.tile_size, args.tile_size)
       IN  IF n = <<>>
           THEN /\ LeaveChannel
                /\ UNCHANGED <<y, x, pending>>
           ELSE /\ y' = n[1]
                /\ x' = n[2]
                /\ pending' = Append(pending, TileYielded(n[1], n[2]))
                /\ UNCHANGED <<c, pc, image>>
    /\ UNCHANGED <<others, computed, materialized, args, ome_metadata,
                   dirs_created, file_state, entries, tiles, level, error>>

\* tif.write returns once every tile it received is stored, the generator
\* exhausted or left suspended at its last tile; a generator left suspended
\* is released with its locals; the for loop of line 126 goes on to the next level
\* or the with block is left.
EndLevel ==
    /\ GeneratorExhausted \/ SuspendedAtLastTile
    /\ pending = <<>>
    /\ IF HasNextLevel(level, args.max_levels)
       THEN /\ level' = level + 1
            /\ pc' = "write_level"
       ELSE /\ pc' = "finalizing"
            /\ UNCHANGED level
    /\ image' = NoImage
    /\ UNCHANGED <<others, computed, materialized, pending, args,
                   ome_metadata, dirs_created,
                   file_state, entries, tiles, c, y, x, error>>

\* Line 114, __exit__ without an exception: the container is closed, and
\* the call returns or close() raises.
ExitWith ==
    /\ pc = "finalizing"
    /\ file_state' = "closed"
    /\ \/ /\ pc' = "failed"
          /\ error' = CloseError
       \/ /\ pc' = "done"
          /\ UNCHANGED error
    /\ UNCHANGED <<others, computed, materialized, pending, args,
                   ome_metadata, dirs_created, entries, tiles, level,
                   c, image, y, x>>

Next ==
    \/ BuildMetadata
    \/ Mkdir
    \/ OpenContainer
    \/ WriteFullResolution
    \/ WriteDownsampledLevel
    \/ Materialize
    \/ BindImage
    \/ Downsample
    \/ EnterTileLoop
    \/ AppendTile
    \/ ResumeGenerator
    \/ EndLevel
    \/ ExitWith

Spec == Init /\ [][Next]_vars

\* The call runs to completion: every statement is a blocking call that
\* returns or raises.
FairSpec == Spec /\ WF_vars(Next)

----------------------------------------------------------------------------
(* Direct calls of _downsample_image and of the tile loops *)

\* Line 163 for one plane: the tile yielded at position (ty, tx), with the
\* position it was cut at.
SliceAt(img, ty, tx, tile_height, tile_width) ==
    [y |-> ty, x |-> tx, data |-> Crop(img, ty, tx, tile_height, tile_width)]

\* The planes the calls are made with: uniform planes, planes with a single
\* bright pixel, and planes whose pixels all differ.
PixelValues == {0, 7, 255}

Uniform(h, w, v) == [ r \in 1..h |-> [ col \in 1..w |-> v ] ]

Impulse(h, w, pr, pcol) ==
    [ r \in 1..h |-> [ col \in 1..w |-> IF r = pr /\ col = pcol THEN 255 ELSE 0 ] ]

Ramp(h, w, k) == [ r \in 1..h |-> [ col \in 1..w |-> k * ((r - 1) * w + col) ] ]

PlanesOfShape(h, w) ==
    { Uniform(h, w, v) : v \in PixelValues }
        \cup { Impulse(h, w, pr, pcol) : pr \in 1..h, pcol \in 1..w }
        \cup { Ramp(h, w, k) : k \in {1, 16} }

Planes == UNION { PlanesOfShape(h, w) : h \in 1..MaxDim, w \in 1..MaxDim }

DownsampleCalls ==
    [ fn : {"_downsample_image"},
      img : Planes,
      downsample_factor : (-MaxFactor)..MaxFactor,
      downsample_method : MethodChoices ]

TileCalls ==
    [ fn : {"tile_loops"},
      image : Planes,
      tile_sizes : (1..MaxTile) \X (1..MaxTile) ]

\* No call of write_pyramidal_ome_tiff is in progress.
IdleArgs ==
    [ num_channels |-> 1, image_height |-> 1, image_width |-> 1,
      channel_names |-> NoneVal, pixel_size_um |-> NoneVal,
      compression |-> "zlib", tile_size |-> 1, max_levels |-> 1,
      downsample_method |-> "box" ]

FnInit ==
    /\ call \in DownsampleCalls \cup TileCalls
    /\ ret = NoRet
    /\ args = IdleArgs
    /\ pc = "idle"
    /\ ome_metadata = NoneVal
    /\ dirs_created = FALSE
    /\ file_state = "absent"
    /\ entries = <<>>
    /\ tiles = <<>>
    /\ level = 0
    /\ c = 0
    /\ image = NoImage
    /\ y = 0
    /\ x = 0
    /\ error = NoError
    /\ computed = NoImage
    /\ materialized = <<>>
    /\ pending = <<>>
    /\ script = NoScript

\* _downsample_image(img, downsample_factor, downsample_method)
CallDownsampleImage ==
    /\ call.fn = "_downsample_image"
    /\ ~ret.done
    /\ ret' = [done |-> TRUE,
               result |-> DownsampleImage(call.img, call.downsample_factor,
                                          call.downsample_method)]
    /\ UNCHANGED <<wvars, call, script>>

\* Lines 160-163 on one plane: the loops are entered and the first tile is
\* yielded to the caller; the loops are suspended at line 163.
StartTileLoops ==
    /\ call.fn = "tile_loops"
    /\ ret = NoRet
    /\ pc = "idle"
    /\ y' = 0
    /\ x' = 0
    /\ pc' = "yield"
    /\ ret' = [done |-> FALSE, exhausted |-> FALSE,
               delivered |-> <<SliceAt(call.image, 0, 0, call.tile_sizes[1],
                                       call.tile_sizes[2])>>]
    /\ UNCHANGED <<call, script, args, ome_metadata, dirs_created, file_state,
                   entries, tiles, level, c, image, error, computed,
                   materialized, pending>>

\* The caller asks for the next tile: the loops of lines 161-162 advance and
\* line 163 yields it, or the loops end.
NextTile ==
    /\ call.fn = "tile_loops"
    /\ pc = "yield"
    /\ LET n == NextOrigin(y, x, Height(call.image), Width(call.image),
                           call.tile_sizes[1], call.tile_sizes[2])
       IN  IF n = <<>>
           THEN /\ ret' = [ret EXCEPT !.done = TRUE, !.exhausted = TRUE]
                /\ pc' = "idle"
                /\ UNCHANGED <<y, x>>
           ELSE /\ y' = n[1]
                /\ x' = n[2]
                /\ ret' = [ret EXCEPT !.delivered =
                              Append(@, SliceAt(call.image, n[1], n[2],
                                                call.tile_sizes[1],
                                                call.tile_sizes[2]))]
                /\ UNCHANGED pc
    /\ UNCHANGED <<call, script, args, ome_metadata, dirs_created, file_state,
                   entries, tiles, level, c, image, error, computed,
                   materialized, pending>>

\* The caller closes the loops suspended at line 163 and takes no more
\* tiles.
CloseTileLoops ==
    /\ call.fn = "tile_loops"
    /\ pc = "yield"
    /\ ret' = [ret EXCEPT !.done = TRUE]
    /\ pc' = "idle"
    /\ UNCHANGED <<call, script, args, ome_metadata, dirs_created, file_state,
                   entries, tiles, level, c, image, y, x, error, computed,
                   materialized, pending>>

FnNext ==
    \/ CallDownsampleImage
    \/ StartTileLoops
    \/ NextTile
    \/ CloseTileLoops

FnSpec == FnInit /\ [][FnNext]_vars

----------------------------------------------------------------------------
(* The point-warping script (warp_points_bigwarp.groovy) *)

\* Script parameters, at the values the dialog proposes.
xColName == "x"
yColName == "y"
outXColName == "x_warped"
outYColName == "y_warped"

\* A line of the input is held as the list line.split(",", -1) gives.
\* The data rows the runs are made with: a good row, a row with a quoted
\* number, rows with a text or an empty cell, a row with one cell only, and
\* a row with a cell too many.
RowChoices ==
    { <<"1", "2">>, <<"\"1\"", "2">>, <<"abc", "2">>, <<"1", "">>, <<"1">>,
      <<"1", "2", "7">> }

HeaderChoices == { <<"x", "y">>, <<"x", "y", "x_warped">>, <<"x">> }

RECURSIVE RowLists(_)
RowLists(n) ==
    IF n = 0
    THEN { <<>> }
    ELSE RowLists(n - 1)
            \cup { Append(rows, row) : rows \in { l \in RowLists(n - 1) : Len(l) = n - 1 },
                                       row \in RowChoices }

\* The input files: the empty file, or a header and up to MaxRows data rows.
InputChoices ==
    { <<>> } \cup { <<header>> \o rows : header \in HeaderChoices,
                                         rows \in RowLists(MaxRows) }

\* Double.parseDouble: the texts it accepts, with their value; any other
\* text makes it throw NumberFormatException.
DoubleOf == ("1" :> 1) @@ ("2" :> 2) @@ ("7" :> 7)

Parsable(text) == text \in DOMAIN DoubleOf

\* text.replaceAll('"', '')
StripQuotes(text) == IF text = "\"1\"" THEN "1" ELSE text

\* String.format("%.6f", v) for a whole number v >= 0.
Format6(v) == ToString(v) \o ".000000"

\* transform.apply(point, result) of the transform BigWarp built from the
\* landmarks; here a translation.
TransformApply(point) == <<point[1] + 10, point[2] + 20>>

\* list.indexOf(name): 0-based, -1 when absent.
IndexOf(list, name) ==
    IF \E k \in 1..Len(list) : list[k] = name
    THEN (CHOOSE k \in 1..Len(list) :
              list[k] = name /\ \A m \in 1..(k - 1) : list[m] # name) - 1
    ELSE -1

\* list.join(",")
RECURSIVE JoinFirst(_, _)
JoinFirst(list, n) ==
    IF n = 0 THEN ""
    ELSE IF n = 1 THEN list[1]
    ELSE JoinFirst(list, n - 1) \o "," \o list[n]

Join(list) == JoinFirst(list, Len(list))

\* while (values.size() < size) values.add("")
PadTo(values, size) ==
    [ k \in 1..(IF Len(values) < size THEN size ELSE Len(values)) |->
        IF k <= Len(values) THEN values[k] ELSE "" ]

\* values[index] = text, for a 0-based index inside the list.
SetAt(values, index, text) == [values EXCEPT ![index + 1] = text]

\* values[index] read from a Groovy list: null beyond its end.
GetAt(values, index) ==
    IF index + 1 <= Len(values) THEN Some(values[index + 1]) ELSE NoneVal

\* Lines 172-191: the body of the transformation loop for one row, as the
\* pair <<values after it, whether the catch block was entered>>.
TransformedValues(values, xColIndex, yColIndex, outXColIndex, outYColIndex) ==
    IF Parsable(values[xColIndex + 1]) /\ Parsable(values[yColIndex + 1])
    THEN LET result == TransformApply(<<DoubleOf[values[xColIndex + 1]],
                                        DoubleOf[values[yColIndex + 1]]>>)
         IN  << SetAt(SetAt(values, outXColIndex, Format6(result[1])),
                      outYColIndex, Format6(result[2])),
                FALSE >>
    ELSE << SetAt(SetAt(values, outXColIndex, "NaN"), outYColIndex, "NaN"),
            TRUE >>

\* Lines 207-209: what re-reading the row for the minimum and maximum does:
\* "ok", or the exception thrown.
ReparseOutcome(values, xColIndex, yColIndex) ==
    LET xcell == GetAt(values, xColIndex)
        ycell == GetAt(values, yColIndex)
    IN  IF ~xcell.some THEN "NullPointerException"
        ELSE IF ~Parsable(StripQuotes(xcell.val)) THEN "NumberFormatException"
        ELSE IF ~ycell.some THEN "NullPointerException"
        ELSE IF ~Parsable(StripQuotes(ycell.val)) THEN "NumberFormatException"
        ELSE "ok"

CsvInit ==
    /\ \E input \in InputChoices :
           script = [ pc |-> "read", lines |-> input, columns |-> <<>>,
                      xColIndex |-> -1, yColIndex |-> -1,
                      outXColIndex |-> -1, outYColIndex |-> -1,
                      outputLines |-> <<>>, i |-> 0, warnings |-> <<>>,
                      output |-> NoneVal, exception |-> NoneVal ]
    /\ call = NoCall
    /\ ret = NoRet
    /\ args = IdleArgs
    /\ pc = "idle"
    /\ ome_metadata = NoneVal
    /\ dirs_created = FALSE
    /\ file_state = "absent"
    /\ entries = <<>>
    /\ tiles = <<>>
    /\ level = 0
    /\ c = 0
    /\ image = NoImage
    /\ y = 0
    /\ x = 0
    /\ error = NoError
    /\ computed = NoImage
    /\ materialized = <<>>
    /\ pending = <<>>

\* Lines 122-132: the input is read; an unreadable or empty input ends the
\* script.
ReadInput ==
    /\ script.pc = "read"
    /\ \/ script' = [script EXCEPT !.pc = "returned"]
       \/ /\ script.lines # <<>>
          /\ script' = [script EXCEPT !.pc = "header"]
    /\ UNCHANGED <<wvars, call, ret>>

\* Lines 135-154.
ParseHeader ==
    /\ script.pc = "header"
    /\ LET header == script.lines[1]
           xi == IndexOf(header, xColName)
           yi == IndexOf(header, yColName)
           oxi == IndexOf(header, outXColName)
           cols1 == IF oxi = -1 THEN Append(header, outXColName) ELSE header
           oxi1 == IF oxi = -1 THEN Len(cols1) - 1 ELSE oxi
           oyi == IndexOf(header, outYColName)
           cols2 == IF oyi = -1 THEN Append(cols1, outYColName) ELSE cols1
           oyi1 == IF oyi = -1 THEN Len(cols2) - 1 ELSE oyi
       IN  script' = [script EXCEPT
               !.columns = cols2,
               !.xColIndex = xi, !.yColIndex = yi,
               !.outXColIndex = oxi1, !.outYColIndex = oyi1,
               !.pc = IF xi = -1 \/ yi = -1 THEN "returned" ELSE "build"]
    /\ UNCHANGED <<wvars, call, ret>>

\* Lines 157-166: the transform is built (or is null, or building it
\* throws), and the output starts with the header.
BuildTransform ==
    /\ script.pc = "build"
    /\ \/ script' = [script EXCEPT !.pc = "returned"]
       \/ script' = [script EXCEPT !.pc = "aborted",
                                   !.exception = Some("buildTransform")]
       \/ script' = [script EXCEPT !.pc = "transform_loop", !.i = 1,
                                   !.outputLines = <<Join(script.columns)>>]
    /\ UNCHANGED <<wvars, call, ret>>

\* Lines 168-194, one iteration.
TransformRow ==
    /\ script.pc = "transform_loop"
    /\ script.i < Len(script.lines)
    /\ LET values == PadTo(script.lines[script.i + 1], Len(script.columns))
           after == TransformedValues(values, script.xColIndex, script.yColIndex,
                                      script.outXColIndex, script.outYColIndex)
       IN  script' = [script EXCEPT
               !.outputLines = Append(@, Join(after[1])),
               !.warnings = IF after[2] THEN Append(@, script.i + 1) ELSE @,
               !.i = @ + 1]
    /\ UNCHANGED <<wvars, call, ret>>

\* Line 168, loop left; lines 197-206, the second loop is entered.
EndTransformLoop ==
    /\ script.pc = "transform_loop"
    /\ script.i >= Len(script.lines)
    /\ script' = [script EXCEPT !.pc = "minmax_loop", !.i = 1]
    /\ UNCHANGED <<wvars, call, ret>>

\* Lines 206-223, one iteration: the row is split and parsed again, outside
\* any try block; an exception ends the script.
MinMaxRow ==
    /\ script.pc = "minmax_loop"
    /\ script.i < Len(script.lines)
    /\ LET outcome == ReparseOutcome(script.lines[script.i + 1],
                                     script.xColIndex, script.yColIndex)
       IN  IF outcome = "ok"
           THEN script' = [script EXCEPT !.i = @ + 1]
           ELSE script' = [script EXCEPT !.pc = "aborted",
                                         !.exception = Some(outcome)]
    /\ UNCHANGED <<wvars, call, ret>>

\* Lines 225-241: the output is written; an IOException is printed and the
\* script ends all the same.
WriteOutput ==
    /\ script.pc = "minmax_loop"
    /\ script.i >= Len(script.lines)
    /\ \/ script' = [script EXCEPT !.pc = "done",
                                   !.output = Some(script.outputLines)]
       \/ script' = [script EXCEPT !.pc = "done",
                                   !.exception = Some("IOException")]
    /\ UNCHANGED <<wvars, call, ret>>

CsvNext ==
    \/ ReadInput
    \/ ParseHeader
    \/ BuildTransform
    \/ TransformRow
    \/ EndTransformLoop
    \/ MinMaxRow
    \/ WriteOutput

CsvSpec == CsvInit /\ [][CsvNext]_vars

----------------------------------------------------------------------------
(* Auxiliary definitions of the properties *)

\* k = ceil(a / b), stated without division.
IsCeil(k, a, b) == k * b >= a /\ (k - 1) * b < a

\* Lexicographic order on (level, channel, tile row, tile column).
LexLess(a, b) ==
    \/ a.level < b.level
    \/ a.level = b.level /\ a.channel < b.channel
    \/ a.level = b.level /\ a.channel = b.channel /\ a.y < b.y
    \/ a.level = b.level /\ a.channel = b.channel /\ a.y = b.y /\ a.x < b.x

\* The levels one call writes: level 0 always, then 1 .. max_levels-1.
LevelsWritten == {0} \cup (1..(args.max_levels - 1))

\* The tile origins along one axis of length n: 0, t, 2t, ... < n.
Origins(n, t) == { k \in 0..(n - 1) : k % t = 0 }

\* The origins (y, x) of the tiles appended for level lvl, channel ch.
TilesOf(lvl, ch) ==
    { <<tiles[i].y, tiles[i].x>> :
        i \in { j \in 1..Len(tiles) : tiles[j].level = lvl /\ tiles[j].channel = ch } }

\* The tiles the generator has yielded, in order: those tif.write has
\* stored, then those it holds and has not stored yet.
Emitted == tiles \o pending

\* The origins (y, x) of the tiles yielded for level lvl, channel ch.
EmittedOf(lvl, ch) ==
    { <<Emitted[i].y, Emitted[i].x>> :
        i \in { j \in 1..Len(Emitted) :
                    Emitted[j].level = lvl /\ Emitted[j].channel = ch } }

\* The origins of the row-major scan of a plane of the size the entry of
\* level lvl declares.
ExpectedOrigins(lvl) ==
    Origins(entries[lvl + 1].shape[2], args.tile_size)
        \X Origins(entries[lvl + 1].shape[3], args.tile_size)

\* The arguments a claim is not about are valid ones.
TileSizeValid == args.tile_size > 0
LevelCountValid == args.max_levels >= 1
NamesValid == ~args.channel_names.some
                 \/ Len(args.channel_names.val) = args.num_channels

----------------------------------------------------------------------------
(* C1 *)

\* C1: the tiles appended during one write are strictly increasing in the
\* lexicographic order of (level, channel, tile row, tile column), the first
\* one being tile (0, 0) of channel 0 of level 0; and a successful write
\* with a positive tile size has appended, for every level and channel,
\* every tile of the row-major scan.
C1_TilesInLexicographicOrder ==
    /\ tiles # <<>> =>
          /\ tiles[1].level = 0
          /\ tiles[1].channel = 0
          /\ tiles[1].y = 0
          /\ tiles[1].x = 0
    /\ \A i \in 1..(Len(tiles) - 1) : LexLess(tiles[i], tiles[i + 1])
    /\ \A i \in 1..Len(tiles) : tiles[i].level <= level
    /\ (pc = "done" /\ args.tile_size > 0) =>
          \A lvl \in LevelsWritten : \A ch \in 0..(args.num_channels - 1) :
              TilesOf(lvl, ch) = ExpectedOrigins(lvl)

\* A finished write of two levels and two channels whose level 0 has more
\* than one tile row and more than one tile column.
C1_Witness ==
    /\ pc = "done"
    /\ Len(entries) >= 2
    /\ args.num_channels >= 2
    /\ \E i \in 1..Len(tiles) :
          tiles[i].level = 0 /\ tiles[i].channel = 1 /\ tiles[i].y > 0 /\ tiles[i].x > 0
    /\ \E i \in 1..Len(tiles) : tiles[i].level = 1 /\ tiles[i].channel = 1

----------------------------------------------------------------------------
(* C2 *)

\* C2: for every max_levels N >= 1 a successful write has declared exactly
\* N entries: the first is the primary entry (not flagged) and declares
\* N-1 sub-resolution entries, the N-1 that follow are flagged as
\* reduced-resolution (subfiletype 1) and declare none; the number of
\* flagged entries equals the number the primary entry declared.
C2_EntriesMatchDeclaredSubifds ==
    (pc = "done" /\ args.max_levels >= 1) =>
        /\ Len(entries) = args.max_levels
        /\ entries[1].subfiletype = 0
        /\ entries[1].subifds = args.max_levels - 1
        /\ \A i \in 2..Len(entries) :
              entries[i].subfiletype = 1 /\ entries[i].subifds = 0
        /\ Cardinality({ i \in 1..Len(entries) : entries[i].subfiletype = 1 })
              = entries[1].subifds

\* A finished write of three or more levels whose last two levels are both
\* a single pixel: the level count was not clamped.
C2_Witness ==
    /\ pc = "done"
    /\ args.max_levels >= 3
    /\ Len(entries) = args.max_levels
    /\ entries[Len(entries)].shape[2] = 1 /\ entries[Len(entries)].shape[3] = 1
    /\ entries[Len(entries) - 1].shape[2] = 1 /\ entries[Len(entries) - 1].shape[3] = 1

----------------------------------------------------------------------------
(* C3 *)

\* C3: the i-th entry declared is level i-1, and its shape is
\* (channels, ceil(H0 / 2^l), ceil(W0 / 2^l), 1), level 0 being (H0, W0);
\* a 2050 x 2050 plane gives 1025 x 1025 at level 1 and 513 x 513 at level 2.
C3_DeclaredShapeIsCeil ==
    /\ \A i \in 1..Len(entries) :
          LET e == entries[i]
              l == i - 1
          IN  /\ e.level = l
              /\ e.shape[1] = args.num_channels
              /\ IsCeil(e.shape[2], args.image_height, 2 ^ l)
              /\ IsCeil(e.shape[3], args.image_width, 2 ^ l)
              /\ e.shape[4] = 1
              /\ l = 0 => e.shape[2] = args.image_height /\ e.shape[3] = args.image_width
    /\ DeclaredShape(1, 2050, 2050, 0) = <<1, 2050, 2050, 1>>
    /\ DeclaredShape(1, 2050, 2050, 1) = <<1, 1025, 1025, 1>>
    /\ DeclaredShape(1, 2050, 2050, 2) = <<1, 513, 513, 1>>

\* An entry of level 2 has been declared for a base size that is not a
\* multiple of 4 in either direction.
C3_Witness ==
    /\ Len(entries) >= 3
    /\ args.image_height % 4 # 0
    /\ args.image_width % 4 # 0
    /\ args.image_height # args.image_width

----------------------------------------------------------------------------
(* C4 *)

\* C4: a write called with tile_size <= 0 (its other arguments valid)
\* creates nothing: the file at the output path is never created or opened,
\* no tile is appended, and the call does not succeed.
C4_BadTileSizeCreatesNothing ==
    (args.tile_size <= 0 /\ LevelCountValid /\ NamesValid) =>
        /\ file_state = "absent"
        /\ tiles = <<>>
        /\ pc # "done"

----------------------------------------------------------------------------
(* C5 *)

\* C5: a write called with max_levels < 1 (its other arguments valid) fails
\* during validation: the container is never created, no entry is declared
\* and no tile of level 0 is appended.
C5_BadLevelCountFailsInValidation ==
    (args.max_levels < 1 /\ TileSizeValid /\ NamesValid) =>
        /\ file_state = "absent"
        /\ entries = <<>>
        /\ tiles = <<>>
        /\ pc \notin {"open", "write_level", "channel", "bind", "downsample",
                       "tile_loop", "yield", "finalizing", "done"}

----------------------------------------------------------------------------
(* C6 *)

\* The channel_names argument is a list (not None) whose length differs
\* from the channel count.
NamesMismatch ==
    /\ args.channel_names.some
    /\ Len(args.channel_names.val) # args.num_channels

\* C6: once the metadata step has run, every supplied channel_names list
\* whose length differs from the channel count (length 0 included) has made
\* it fail, and a list of the right length is recorded under Channel.Name in
\* the order given.
C6_MismatchFailsEqualRecords ==
    (pc # "metadata" /\ TileSizeValid /\ LevelCountValid) =>
        /\ NamesMismatch =>
              /\ pc = "failed"
              /\ error.raised
              /\ error.origin = "_make_ome_metadata"
              /\ ~ome_metadata.some
        /\ (args.channel_names.some /\ ~NamesMismatch) =>
              /\ ome_metadata.some
              /\ "Channel" \in DOMAIN ome_metadata.val
              /\ ome_metadata.val["Channel"].Name = args.channel_names.val

\* The part of C6 the code does implement: a non-empty list of the wrong
\* length fails with the assertion of line 198, a list of the right length
\* is recorded in order, and an empty list is treated like None.
C6_NonEmptyMismatchFails ==
    pc # "metadata" =>
        /\ (NamesMismatch /\ args.channel_names.val # <<>>) =>
              /\ pc = "failed"
              /\ error.type = "AssertionError"
              /\ ~ome_metadata.some
        /\ (args.channel_names.some /\ ~NamesMismatch) =>
              /\ ome_metadata.some
              /\ ome_metadata.val["Channel"].Name = args.channel_names.val
        /\ (args.channel_names = Some(<<>>)) =>
              /\ ome_metadata.some
              /\ "Channel" \notin DOMAIN ome_metadata.val

----------------------------------------------------------------------------
(* C7 *)

\* C7: a write called with a channel_names list whose length differs from
\* the channel count (its other arguments valid) leaves the file system
\* unchanged: no parent directory is created, the container is never opened
\* and no plane is materialized.
C7_MismatchLeavesFileSystemUnchanged ==
    (NamesMismatch /\ TileSizeValid /\ LevelCountValid) =>
        /\ ~dirs_created
        /\ file_state = "absent"
        /\ image = NoImage
        /\ materialized = <<>>
        /\ pc \in {"metadata", "failed"}

\* The part of C7 the code does implement: the assertion of line 198 is
\* raised before line 111, so the file system is unchanged whenever the
\* metadata step fails.
C7_MetadataFailureLeavesFileSystemUnchanged ==
    (pc = "failed" /\ error.origin = "_make_ome_metadata") =>
        /\ ~dirs_created
        /\ file_state = "absent"
        /\ image = NoImage
        /\ materialized = <<>>

----------------------------------------------------------------------------
(* C8 *)

\* The level in progress is the last one and every tile of its scan, for
\* every channel, is stored; tif.write holds no tile it has not stored.
AtEndOfLastLevel ==
    /\ ~HasNextLevel(level, args.max_levels)
    /\ pending = <<>>
    /\ args.tile_size > 0 =>
           \A ch \in 0..(args.num_channels - 1) :
               TilesOf(level, ch) = ExpectedOrigins(level)

\* C8: once the container is open it is eventually closed; a step that
\* ends in success closes it, is taken from Finalizing, and comes after the
\* last tile of the last level; a step that raises while the container is
\* open closes it in that same step; and no tile is appended, nor entry
\* declared, once the container is closed.
C8_ContainerEventuallyClosed ==
    /\ (file_state = "open") ~> (file_state = "closed")
    /\ [][ /\ (pc' = "done" /\ pc # "done") =>
                 /\ pc = "finalizing"
                 /\ file_state = "open" /\ file_state' = "closed"
                 /\ AtEndOfLastLevel
           /\ (pc' = "finalizing" /\ pc # "finalizing") => AtEndOfLastLevel
           /\ (error'.raised /\ ~error.raised /\ file_state = "open") =>
                 file_state' = "closed"
           /\ (file_state' = "closed" /\ file_state = "open") =>
                 pc' \in {"done", "failed"}
           /\ file_state = "closed" =>
                 /\ tiles' = tiles
                 /\ entries' = entries
                 /\ file_state' = "closed" ]_vars

\* A write that failed after appending tiles, its container closed.
C8_Witness ==
    /\ pc = "failed"
    /\ file_state = "closed"
    /\ error.origin = "append"
    /\ Len(tiles) >= 2

----------------------------------------------------------------------------
(* C9 *)

\* tif.write has returned for level lvl.
LevelWritten(lvl) ==
    \/ lvl < level
    \/ lvl = level /\ pc \in {"finalizing", "done"}

\* The generator of the level in progress has left channel ch.
Passed(ch) ==
    /\ ch < c
    /\ pc \in {"channel", "bind", "downsample", "tile_loop", "yield"}

\* C9: a failure ends the write: the call is in its failed state exactly
\* when an exception was raised, success is never reported with an
\* exception raised, after an exception nothing more is declared or
\* appended; and no channel or level is skipped: while the write goes on
\* (tile size positive), every channel of every level written has all the
\* tiles of its scan stored, and every channel the generator has left has
\* yielded all the tiles of its scan.
C9_FailureAbortsWholeWrite ==
    /\ [](error.raised <=> pc = "failed")
    /\ [](pc = "done" => ~error.raised)
    /\ []((pc # "failed" /\ args.tile_size > 0 /\ entries # <<>>) =>
             \A ch \in 0..(args.num_channels - 1) :
                 /\ \A lvl \in 0..level :
                        LevelWritten(lvl) => TilesOf(lvl, ch) = ExpectedOrigins(lvl)
                 /\ Passed(ch) => EmittedOf(level, ch) = ExpectedOrigins(level))
    /\ [][error.raised => (tiles' = tiles /\ entries' = entries /\ pc' = "failed")]_vars

\* A write that failed materializing channel 1 of level 1, after the tiles
\* of level 0 and of channel 0 of level 1 were appended.
C9_Witness ==
    /\ pc = "failed"
    /\ error.origin = "compute"
    /\ level = 1
    /\ c = 1
    /\ args.max_levels >= 3
    /\ \E i \in 1..Len(tiles) : tiles[i].level = 1 /\ tiles[i].channel = 0

----------------------------------------------------------------------------
(* C10 *)

\* C10: when materializing a plane or appending a tile fails in a write
\* whose arguments are valid, the exception the caller receives is an
\* IOError (OSError) that carries the level and the channel in progress.
C10_IOErrorCarriesLevelAndChannel ==
    (/\ pc = "failed" /\ error.origin \in {"compute", "append"}
     /\ TileSizeValid /\ LevelCountValid /\ NamesValid) =>
        /\ error.type = "OSError"
        /\ "level" \in DOMAIN error
        /\ "channel" \in DOMAIN error
        /\ error.level = level
        /\ error.channel = c

\* What the code does instead: the exception is the one the failing call
\* raised, with nothing added.
C10_ExceptionIsUnwrapped ==
    pc = "failed" => DOMAIN error = {"raised", "type", "origin"}

----------------------------------------------------------------------------
(* C11 *)

DownsampleReturned ==
    /\ call.fn = "_downsample_image"
    /\ ret.done

IsPlaneOfShape(img, h, w) ==
    /\ Len(img) = h
    /\ \A r \in 1..h : Len(img[r]) = w

\* C11: for a factor f >= 1, _downsample_image returns, for both methods, a
\* plane of shape (ceil(H / f), ceil(W / f)), and with factor 1 it returns
\* its input unchanged.
C11_DownsampleShapeIsCeil ==
    (DownsampleReturned /\ call.downsample_factor >= 1) =>
        /\ ret.result.ok
        /\ \E h \in 1..Height(call.img), w \in 1..Width(call.img) :
               /\ IsCeil(h, Height(call.img), call.downsample_factor)
               /\ IsCeil(w, Width(call.img), call.downsample_factor)
               /\ IsPlaneOfShape(ret.result.value, h, w)
        /\ call.downsample_factor = 1 => ret.result.value = call.img

\* A block mean with factor 2 of a 3 x 3 plane has returned.
C11_Witness ==
    /\ DownsampleReturned
    /\ call.downsample_method = "box"
    /\ call.downsample_factor = 2
    /\ Height(call.img) = 3
    /\ Width(call.img) = 3
    /\ ret.result.ok
    /\ IsPlaneOfShape(ret.result.value, 2, 2)

----------------------------------------------------------------------------
(* C12 *)

\* The pixels of the input that lie in block (i, j) of a reduction by
\* factor, the blocks counted from 0: the block clipped to the plane.
RealPixels(img, i, j, factor) ==
    LET rows == { r \in 1..Height(img) : (r - 1) \div factor = i }
        cols == { col \in 1..Width(img) : (col - 1) \div factor = j }
    IN  { <<r, col>> : r \in rows, col \in cols }

RECURSIVE SumOver(_, _)
SumOver(img, cells) ==
    IF cells = {}
    THEN 0
    ELSE LET cell == CHOOSE q \in cells : TRUE
         IN  img[cell[1]][cell[2]] + SumOver(img, cells \ {cell})

BlockMeanReturned ==
    /\ DownsampleReturned
    /\ call.downsample_method = "box"
    /\ call.downsample_factor > 1

\* C12: with the block mean and a factor f > 1, every output pixel is the
\* mean, truncated to the input's integer type, of the input pixels that lie
\* in its f x f block; a block cut by the plane's edge is averaged over the
\* pixels it really has.
C12_BlockMeanOverRealPixels ==
    BlockMeanReturned =>
        /\ ret.result.ok
        /\ \A i \in 1..Len(ret.result.value) :
               \A j \in 1..Len(ret.result.value[i]) :
                   LET cells == RealPixels(call.img, i - 1, j - 1,
                                           call.downsample_factor)
                   IN  ret.result.value[i][j] =
                           SumOver(call.img, cells) \div Cardinality(cells)

\* What the code does instead: every block, cut by the edge or not, has its
\* real pixels summed and the sum divided by f * f.
C12_BlockMeanDividesByFullBlock ==
    BlockMeanReturned =>
        /\ ret.result.ok
        /\ \A i \in 1..Len(ret.result.value) :
               \A j \in 1..Len(ret.result.value[i]) :
                   LET cells == RealPixels(call.img, i - 1, j - 1,
                                           call.downsample_factor)
                   IN  ret.result.value[i][j] =
                           SumOver(call.img, cells)
                               \div (call.downsample_factor * call.downsample_factor)

----------------------------------------------------------------------------
(* C13 *)

IsUniform(img, v) ==
    \A r \in 1..Len(img) : \A col \in 1..Len(img[r]) : img[r][col] = v

\* C13: the block mean of a plane whose pixels all have the value v is a
\* plane whose pixels all have the value v, whatever the plane's size and
\* the factor f >= 1.
C13_UniformStaysUniform ==
    (/\ DownsampleReturned
     /\ call.downsample_method = "box"
     /\ call.downsample_factor >= 1) =>
        \A v \in PixelValues :
            IsUniform(call.img, v) =>
                ret.result.ok /\ IsUniform(ret.result.value, v)

\* What holds instead: the value is kept when both sides of the plane are
\* multiples of the factor.
C13_UniformStaysUniformOnWholeBlocks ==
    (/\ DownsampleReturned
     /\ call.downsample_method = "box"
     /\ call.downsample_factor >= 1
     /\ Height(call.img) % call.downsample_factor = 0
     /\ Width(call.img) % call.downsample_factor = 0) =>
        \A v \in PixelValues :
            IsUniform(call.img, v) =>
                ret.result.ok /\ IsUniform(ret.result.value, v)

----------------------------------------------------------------------------
(* C14 *)

TileLoopsStarted ==
    /\ call.fn = "tile_loops"
    /\ ret # NoRet

\* The tiles whose rectangle holds pixel (r, col), both counted from 1.
TilesHolding(ts, r, col) ==
    { k \in 1..Len(ts) :
        /\ ts[k].y < r /\ r <= ts[k].y + Height(ts[k].data)
        /\ ts[k].x < col /\ col <= ts[k].x + Width(ts[k].data) }

\* C14: cutting an H x W plane with tile sizes (th, tw) yields
\* ceil(H / th) * ceil(W / tw) tiles once the loops have ended, and never
\* more; the k-th tile is the crop at row (k div ncols) * th and column
\* (k mod ncols) * tw, clipped at the plane's edge; and putting the tiles
\* back at these positions gives the plane again, every pixel lying in
\* exactly one tile (in at most one while tiles are still to come).
C14_TilesPartitionThePlane ==
    TileLoopsStarted =>
        LET img == call.image
            th == call.tile_sizes[1]
            tw == call.tile_sizes[2]
            ts == ret.delivered
        IN  \E nrows \in 1..Height(img), ncols \in 1..Width(img) :
                /\ IsCeil(nrows, Height(img), th)
                /\ IsCeil(ncols, Width(img), tw)
                /\ Len(ts) <= nrows * ncols
                /\ ret.exhausted => Len(ts) = nrows * ncols
                /\ \A k \in 1..Len(ts) :
                       /\ ts[k].y = ((k - 1) \div ncols) * th
                       /\ ts[k].x = ((k - 1) % ncols) * tw
                       /\ IsPlaneOfShape(ts[k].data,
                                         Min(th, Height(img) - ts[k].y),
                                         Min(tw, Width(img) - ts[k].x))
                /\ \A r \in 1..Height(img) : \A col \in 1..Width(img) :
                       /\ Cardinality(TilesHolding(ts, r, col)) <= 1
                       /\ Len(ts) = nrows * ncols =>
                              Cardinality(TilesHolding(ts, r, col)) = 1
                       /\ \A k \in TilesHolding(ts, r, col) :
                              ts[k].data[r - ts[k].y][col - ts[k].x] = img[r][col]

\* A 3 x 3 plane whose pixels all differ was cut with 2 x 2 tiles: four
\* tiles, those of the right and bottom edge clipped.
C14_Witness ==
    /\ TileLoopsStarted
    /\ ret.exhausted
    /\ call.image = Ramp(3, 3, 1)
    /\ call.tile_sizes = <<2, 2>>
    /\ Len(ret.delivered) = 4
    /\ ret.delivered[4].data = <<<<9>>>>

----------------
(* C16 *)

\* C16: a downsample factor smaller than 1 makes _downsample_image fail,
\* for both methods; it never returns a plane, and a negative factor with
\* decimation does not return a reversed plane.  (Any exception counts as
\* the failure here, whatever its type.)
C16_FactorBelowOneFails ==
    (DownsampleReturned /\ call.downsample_factor < 1) => ~ret.result.ok

\* What the code does instead: the block mean and a zero step fail with the
\* ValueError of the library, and decimation with a negative factor returns
\* rows and columns taken from the last one backwards.
C16_NegativeStrideReverses ==
    (DownsampleReturned /\ call.downsample_factor < 1) =>
        IF call.downsample_method # "box" /\ call.downsample_factor < 0
        THEN /\ ret.result.ok
             /\ ret.result.value[1][1] =
                    call.img[Height(call.img)][Width(call.img)]
        ELSE /\ ~ret.result.ok
             /\ ret.result.type = "ValueError"

----------------------------------------------------------------------------
(* C20 *)

DecimationReturned ==
    /\ DownsampleReturned
    /\ call.downsample_method # "box"
    /\ call.downsample_factor >= 1

\* C20: decimation by a factor f >= 1 returns the plane whose pixel (i, j),
\* counted from 0, is the input pixel (i * f, j * f), for every i * f < H
\* and j * f < W and for no other position.
C20_DecimationTakesEveryFthPixel ==
    DecimationReturned =>
        LET f == call.downsample_factor
            rows == { i \in 0..(Height(call.img) - 1) : i * f < Height(call.img) }
            cols == { j \in 0..(Width(call.img) - 1) : j * f < Width(call.img) }
        IN  /\ ret.result.ok
            /\ IsPlaneOfShape(ret.result.value, Cardinality(rows), Cardinality(cols))
            /\ \A i \in rows : \A j \in cols :
                   ret.result.value[i + 1][j + 1] = call.img[i * f + 1][j * f + 1]

\* Decimation by 2 of a 3 x 3 plane whose pixels all differ returned the
\* four corners.
C20_Witness ==
    /\ DecimationReturned
    /\ call.downsample_factor = 2
    /\ call.img = Ramp(3, 3, 1)
    /\ ret.result.ok
    /\ ret.result.value = <<<<1, 3>>, <<7, 9>>>>

----------------------------------------------------------------------------
(* C15 *)

\* The decimal text of the pixel sizes the writes are called with, the
\* sizes given in hundredths of a micrometre.
DecimalText == (25 :> "0.25") @@ (50 :> "0.5")

PhysicalSizeKeys ==
    { "PhysicalSizeX", "PhysicalSizeXUnit", "PhysicalSizeY", "PhysicalSizeYUnit" }

\* C15: with a pixel size (y, x) supplied, the metadata has PhysicalSizeX =
\* the decimal text of x, the second component, PhysicalSizeY = the decimal
\* text of y, the first component, and both units "µm"; with no pixel size
\* supplied it has none of the four keys; Creator is always present.  Every
\* entry of the container is written with this metadata.
C15_PhysicalSizeFromPair ==
    /\ ome_metadata.some =>
           LET m == ome_metadata.val
           IN  /\ "Creator" \in DOMAIN m
               /\ m["Creator"] = "zarr-ometiff"
               /\ IF args.pixel_size_um.some
                  THEN /\ PhysicalSizeKeys \subseteq DOMAIN m
                       /\ m["PhysicalSizeX"] = DecimalText[args.pixel_size_um.val[2]]
                       /\ m["PhysicalSizeY"] = DecimalText[args.pixel_size_um.val[1]]
                       /\ m["PhysicalSizeXUnit"] = "µm"
                       /\ m["PhysicalSizeYUnit"] = "µm"
                  ELSE PhysicalSizeKeys \cap DOMAIN m = {}
    /\ \A i \in 1..Len(entries) :
           /\ ome_metadata.some
           /\ entries[i].options.metadata = ome_metadata.val

\* A finished write with the pixel size (y, x) = (0.25, 0.5): its entries
\* carry PhysicalSizeX "0.5" and PhysicalSizeY "0.25".
C15_Witness ==
    /\ pc = "done"
    /\ args.pixel_size_um = Some(<<25, 50>>)
    /\ Len(entries) >= 2
    /\ entries[2].options.metadata["PhysicalSizeX"] = "0.5"
    /\ entries[2].options.metadata["PhysicalSizeY"] = "0.25"

----------------------------------------------------------------------------
(* C18 *)

\* The number of full-resolution planes that are referenced: the one image
\* is bound to (or is a view of) and the one just computed, not yet bound.
LiveFullPlanes ==
    (IF image.held /\ image.full THEN 1 ELSE 0)
        + (IF computed.held THEN 1 ELSE 0)

\* C18: at every point of a write whose arguments are valid, at most one
\* full-resolution plane is held: the plane of channel c is released before
\* the plane of channel c + 1 is materialized.
C18_AtMostOneFullPlane ==
    (pc # "failed" /\ TileSizeValid /\ LevelCountValid /\ NamesValid) =>
        LiveFullPlanes <= 1

\* What the code does instead: the plane of the previous channel is
\* released when image is bound again, after the next plane was computed;
\* two planes are held between the two.
C18_TwoFullPlanesWhileRebinding ==
    /\ LiveFullPlanes <= 2
    /\ (pc # "failed" /\ LiveFullPlanes = 2) =>
           /\ pc = "bind"
           /\ c >= 1
           /\ image.channel = c - 1
           /\ computed.channel = c

----------------------------------------------------------------------------
(* C19 *)

\* The pair (level, channel) comes before the pair (lvl, ch).
PairBefore(t, lvl, ch) ==
    t.level < lvl \/ (t.level = lvl /\ t.channel < ch)

\* C19: in a write of C channels and N >= 1 levels with a valid tile size,
\* the k-th materialization is that of level (k div C), channel (k mod C),
\* so that a successful write has C * N of them, one per level and channel;
\* it happens after every tile of the pairs before its own was yielded and
\* taken by tif.write, and before every tile of its own pair is yielded; and what is downsampled is always the channel's
\* full-resolution plane of the original stack.
C19_OneMaterializationPerLevelAndChannel ==
    (TileSizeValid /\ LevelCountValid) =>
        /\ \A k \in 1..Len(materialized) :
               LET m == materialized[k]
               IN  /\ m.level = (k - 1) \div args.num_channels
                   /\ m.channel = (k - 1) % args.num_channels
                   /\ m.tiles_before <= Len(Emitted)
                   /\ \A i \in 1..Len(Emitted) :
                          IF i <= m.tiles_before
                          THEN PairBefore(Emitted[i], m.level, m.channel)
                          ELSE ~PairBefore(Emitted[i], m.level, m.channel)
                   /\ (k > 1 /\ pc # "failed") => m.tiles_before >= 1
        /\ \A i \in 1..Len(Emitted) :
               \E k \in 1..Len(materialized) :
                   /\ materialized[k].level = Emitted[i].level
                   /\ materialized[k].channel = Emitted[i].channel
                   /\ materialized[k].tiles_before < i
        /\ pc = "done" => Len(materialized) = args.num_channels * args.max_levels
        /\ pc = "bind" =>
               /\ computed.data = StackPlane(args, c)
               /\ computed.shape = <<args.image_height, args.image_width>>
        /\ pc = "downsample" =>
               /\ image.data = StackPlane(args, c)
               /\ image.shape = <<args.image_height, args.image_width>>

\* A successful write of two channels and three levels: six
\* materializations.
C19_Witness ==
    /\ pc = "done"
    /\ args.num_channels = 2
    /\ args.max_levels = 3
    /\ Len(materialized) = 6
    /\ materialized[6].tiles_before < Len(tiles)

----------------------------------------------------------------------------
(* C21 *)

\* The number of tiles the generator has emitted for level lvl.
TileCount(lvl) == Cardinality({ i \in 1..Len(Emitted) : Emitted[i].level = lvl })

\* Every channel of level lvl has been cut into tiles.
LevelComplete(lvl) ==
    /\ pc # "failed"
    /\ lvl < Len(entries)
    /\ \/ lvl < level
       \/ pc \in {"finalizing", "done"}
       \/ GeneratorExhausted
       \/ SuspendedAtLastTile

\* C21: with a tile size > 0 and a level count >= 1, for both methods, the
\* plane the tiles of a level are cut from has exactly the height and width
\* the level's entry declares, (ceil(H0 / 2^l), ceil(W0 / 2^l)); a level
\* whose channels are all done has C * ceil(h_l / tile) * ceil(w_l / tile)
\* tiles, and no level ever has more.
C21_TilesMatchDeclaredShape ==
    (TileSizeValid /\ LevelCountValid) =>
        /\ pc \in {"tile_loop", "yield"} =>
               /\ image.shape = <<entries[level + 1].shape[2], entries[level + 1].shape[3]>>
               /\ IsPlaneOfShape(image.data, image.shape[1], image.shape[2])
               /\ IsCeil(image.shape[1], args.image_height, 2 ^ level)
               /\ IsCeil(image.shape[2], args.image_width, 2 ^ level)
        /\ \A lvl \in 0..(Len(entries) - 1) :
               \E nrows \in 1..entries[lvl + 1].shape[2],
                  ncols \in 1..entries[lvl + 1].shape[3] :
                   /\ IsCeil(nrows, entries[lvl + 1].shape[2], args.tile_size)
                   /\ IsCeil(ncols, entries[lvl + 1].shape[3], args.tile_size)
                   /\ TileCount(lvl) <= args.num_channels * nrows * ncols
                   /\ LevelComplete(lvl) =>
                          TileCount(lvl) = args.num_channels * nrows * ncols
        /\ \A i \in 1..Len(Emitted) : Emitted[i].level < Len(entries)

\* A finished write of a 3 x 3 base with decimation and tiles of 2: level 1
\* is declared 2 x 2 and has one tile per channel, level 0 four per channel.
C21_Witness ==
    /\ pc = "done"
    /\ args.image_height = 3
    /\ args.image_width = 3
    /\ args.tile_size = 2
    /\ args.num_channels = 2
    /\ args.downsample_method # "box"
    /\ Len(entries) >= 2
    /\ TileCount(0) = 8
    /\ TileCount(1) = 2

----------------------------------------------------------------------------
(* C22 *)

\* Pixel (i, j), counted from 1, of the plane of channel ch decimated by f.
DecimatedPixel(ch, f, i, j) ==
    StackPlane(args, ch)[(i - 1) * f + 1][(j - 1) * f + 1]

\* C22: the block mean is selected by the exact value 'box' alone.  With
\* any other method value, a misspelled one included, the plane that is
\* tiled at a level is the decimation of the channel's plane by the level's
\* factor, the same plane 'nearest neighbor' gives; and whatever the method
\* value, _downsample_image returns a plane for the factor of every level.
C22_OnlyExactBoxSelectsBlockMean ==
    (TileSizeValid /\ LevelCountValid) =>
        /\ (pc \in {"tile_loop", "yield"} /\ args.downsample_method # "box") =>
               /\ \A i \in 1..Len(image.data) : \A j \in 1..Len(image.data[i]) :
                      image.data[i][j] = DecimatedPixel(c, 2 ^ level, i, j)
               /\ image.data =
                      DownsampleImage(StackPlane(args, c), Pow2(level),
                                      "nearest neighbor").value
        /\ pc = "downsample" =>
               DownsampleImage(image.data, Pow2(level), args.downsample_method).ok
        /\ pc = "failed" => error.origin # "_downsample_image"
                            \/ error.type = "MemoryError"

\* A finished write with the method 'Box': the first tile of level 1 holds
\* the first pixel of channel 0, not a mean.
C22_Witness ==
    /\ pc = "done"
    /\ args.downsample_method = "Box"
    /\ args.image_height >= 2
    /\ args.image_width >= 2
    /\ \E i \in 1..Len(tiles) :
           /\ tiles[i].level = 1
           /\ tiles[i].channel = 0
           /\ tiles[i].y = 0
           /\ tiles[i].x = 0
           /\ tiles[i].data[1][1] = StackPlane(args, 0)[1][1]

----------------------------------------------------------------------------
(* C23 *)

\* Data row k (1 = the first line after the header) has an X or Y cell
\* that Double.parseDouble rejects, the cells missing from a short row
\* counted as empty.
RowUnparsable(k) ==
    LET values == PadTo(script.lines[k + 1], Len(script.columns))
    IN  \/ ~Parsable(values[script.xColIndex + 1])
        \/ ~Parsable(values[script.yColIndex + 1])

\* The line the script is to give for an unparsable data row k: the row,
\* filled up to the header's length, with "NaN" in the two output columns.
NaNLine(k) ==
    LET values == PadTo(script.lines[k + 1], Len(script.columns))
    IN  Join([ m \in 1..Len(values) |->
                 IF m - 1 \in {script.outXColIndex, script.outYColIndex}
                 THEN "NaN" ELSE values[m] ])

ScriptInLoops == script.pc \in {"transform_loop", "minmax_loop", "aborted", "done"}

\* The transformation loop keeps going over unparsable rows: every data row
\* done so far has its line, in input order, an unparsable one with "NaN" in
\* both output columns and a warning.
RowsDoneHaveTheirLine ==
    (ScriptInLoops /\ script.outputLines # <<>>) =>
        /\ Len(script.outputLines) <= Len(script.lines)
        /\ script.pc # "transform_loop" => Len(script.outputLines) = Len(script.lines)
        /\ \A k \in 1..(Len(script.outputLines) - 1) :
               RowUnparsable(k) =>
                   /\ script.outputLines[k + 1] = NaNLine(k)
                   /\ \E w \in 1..Len(script.warnings) : script.warnings[w] = k + 1

\* C23: a data row whose X or Y value cannot be parsed gets a warning and
\* "NaN" in both output columns, and the rows after it are processed; the
\* run then reaches the write step, and the output written is the header and
\* one line per data row, in input order.
C23_UnparsableRowsKeptAndWritten ==
    /\ RowsDoneHaveTheirLine
    /\ (script.pc = "aborted") => script.exception = Some("buildTransform")
    /\ (script.pc = "done" /\ script.output.some) =>
           /\ Len(script.output.val) = Len(script.lines)
           /\ script.output.val = script.outputLines

\* What the code does instead: the rows are kept in the list of output
\* lines, but the second loop parses every row again outside any try block,
\* so the script ends with that exception, nothing written, exactly when a
\* row cannot be parsed even with its quotes removed or lacks a cell; a run
\* that reaches the write step had no such row.
C23_SecondLoopEndsTheScript ==
    /\ RowsDoneHaveTheirLine
    /\ script.pc = "aborted" => ~script.output.some
    /\ (script.pc = "aborted" /\ script.exception # Some("buildTransform")) =>
           /\ script.exception.val \in {"NumberFormatException", "NullPointerException"}
           /\ ReparseOutcome(script.lines[script.i + 1], script.xColIndex,
                             script.yColIndex) = script.exception.val
    /\ script.pc = "done" =>
           \A k \in 1..(Len(script.lines) - 1) :
               ReparseOutcome(script.lines[k + 1], script.xColIndex,
                              script.yColIndex) = "ok"
    /\ (script.pc = "done" /\ script.output.some) =>
           /\ Len(script.output.val) = Len(script.lines)
           /\ script.output.val = script.outputLines

====
